---- MODULE Spec2Model ----
(***************************************************************************)
(* Model of src/scraper.py: a single-shot run that fetches proxy           *)
(* candidates, opens a browser through the first working candidate,        *)
(* drives the Bhoomi form, extracts the result table and notifies a        *)
(* Telegram chat.  Each external call (HTTP, Playwright) is one step whose *)
(* outcome the environment chooses.                                        *)
(***************************************************************************)
EXTENDS Integers, Sequences, FiniteSets

\* ---- bounds of the model ----
MaxCandidates == 11   \* longest candidate list the proxy endpoint returns
MaxRows == 2          \* most result rows the page renders
MaxHeaders == 3       \* most header cells / cells per row
MaxChunks == 2        \* longest text handed to the sender, in whole chunks

\* ---- program constants ----
ProxyCap == 10        \* proxies[:10] and (i + 1) == 10
ChunkSize == 4096     \* range(0, len(message_text), 4096)

Dropdowns == <<"district", "taluk", "hobli", "village">>

VARIABLES
  tokenSet,        \* TELEGRAM_TOKEN is a non-empty string
  chatIdSet,       \* TELEGRAM_CHAT_ID is a non-empty string
  pc,              \* position of the single flow of control
  proxies,         \* the list returned by get_free_proxies (shuffled order)
  i,               \* loop index of enumerate(proxies[:10])
  browser,         \* local `browser`: 0 is None, n the instance launched for candidate n
  context,         \* local `context`, same encoding
  page,            \* local `page`, same encoding
  openBrowsers,    \* browser instances launched and not yet closed
  connected,       \* candidate whose page.goto succeeded, 0 if none
  tried,           \* candidates for which a launch was attempted, in order
  httpGets,        \* requests.get calls made
  step,            \* index into Dropdowns of the current selection
  selected,        \* dropdowns whose select_option was attempted, in order
  settleTimeouts,  \* wait_for_load_state calls that timed out
  clicks,          \* clicks of the fetch control attempted
  rowsAtWait,      \* row elements present during wait_for_selector, -1 before it
  rows,            \* len(rows) of the locator query, -1 before it
  headers,         \* len(headers), -1 before the header query
  rowIdx,          \* rows already formatted
  blocks,          \* record blocks appended to message_lines
  shotAttempts,    \* page.screenshot calls made
  screenshots,     \* page.screenshot calls that wrote the artifact
  sent,            \* logical notifications handed to the POST loop
  exc,             \* exception in flight ("none" if none)
  origExc,         \* first exception caught by the except clause of line 154
  exitStatus,      \* -1 while running, then the process exit status
  response,        \* reply of the proxy endpoint: its status and body lines
  rowCells,        \* number of td cells of each row read so far
  message_lines,   \* the list message_lines, each element a string
  final_message,   \* the string final_message, empty before line 150
  message_text,    \* argument of the send_telegram_message call under study
  off,             \* loop variable i of range(0, len(message_text), 4096)
  posts            \* requests.post calls made: chunk text and outcome

vars == <<tokenSet, chatIdSet, pc, proxies, i, browser, context, page,
          openBrowsers, connected, tried, httpGets, step, selected,
          settleTimeouts, clicks, rowsAtWait, rows, headers, rowIdx, blocks,
          shotAttempts, screenshots, sent, exc, origExc, exitStatus,
          response, rowCells, message_lines, final_message,
          message_text, off, posts>>

connVars == <<proxies, i, browser, context, page, openBrowsers, connected, tried>>
navVars == <<step, selected, settleTimeouts, clicks>>
tableVars == <<rowsAtWait, rows, headers, rowIdx, blocks>>
errVars == <<shotAttempts, screenshots>>
envVars == <<tokenSet, chatIdSet>>
fmtVars == <<rowCells, message_lines, final_message>>
sendVars == <<message_text, off, posts>>

Min(a, b) == IF a < b THEN a ELSE b

\* the last ten candidates instead of the first ten: proxies[-10:]
Window_Last(ps) ==
  SubSeq(ps, (IF Len(ps) > ProxyCap THEN Len(ps) - ProxyCap + 1 ELSE 1), Len(ps))

\* proxies[:10]
Window(ps) == SubSeq(ps, 1, Min(Len(ps), ProxyCap))

\* response.text.strip().split("\r\n"): a body of n candidate lines gives n
\* elements, and an empty body gives the one-element list [""]
SplitBody(n) == [j \in 1..(IF n = 0 THEN 1 ELSE n) |-> j]

\* send_telegram_message: without credentials nothing is posted; otherwise
\* the text is posted (delivery failures are only logged)
send_telegram_message(log, kind, category, delivered) ==
  IF ~tokenSet \/ ~chatIdSet
    THEN log
    ELSE Append(log, [kind |-> kind, category |-> category, delivered |-> delivered])

\* what a call on the local `page` can do: None has no attributes, a page of
\* a closed browser rejects every call, a live page may succeed or fail
PageOutcomes(failure) ==
  IF page = 0 THEN {"AttributeError"}
  ELSE IF page \notin openBrowsers THEN {"TargetClosedError"}
  ELSE {"ok", failure}

\* browser.close(); closing an instance that is already closed is a no-op
CloseBrowser(b, open) == open \ {b}

\* ---- strings of the report ----
\* A text is the inner text of one element: where it comes from (header j,
\* or cell j of row r) and whether it carries surrounding whitespace.  A
\* string is a sequence of tokens; "nl" is the newline character.
Txt(t, r, c, pad) == [t |-> t, r |-> r, c |-> c, pad |-> pad]
NoTxt == Txt("", 0, 0, FALSE)
Tok(kind, label, value) == [kind |-> kind, label |-> label, value |-> value]
NL == Tok("nl", NoTxt, NoTxt)

\* line 141: f"... *Bhoomi Mutation Status for {VILLAGE_NAME}*"
TitleLine == <<Tok("title", Txt("VILLAGE_NAME", 0, 0, FALSE), NoTxt)>>
\* lines 142, 148: the divider string
DividerLine == <<Tok("divider", NoTxt, NoTxt)>>

\* h.inner_text() of header j and cell.inner_text() of cell j of row r, as
\* the page delivers them (some with whitespace around the text)
HeaderInnerText(j) == Txt("h", 0, j, j % 2 = 0)
CellInnerText(r, j) == Txt("c", r, j, (r + j) % 2 = 1)

\* str.strip()
strip(t) == [t EXCEPT !.pad = FALSE]

\* line 139: headers = [h.inner_text().strip() for h in header_elements]
HeadersList(h) == [j \in 1..h |-> strip(HeaderInnerText(j))]

\* the pairing written as headers[i] with cells[i+1]: every label is the
\* one of the column to the left of its value
RecordDetails_Misaligned(hs, r) ==
  [k \in 1..(IF Len(hs) >= 1 THEN Len(hs) - 1 ELSE 0) |->
     <<Tok("pair", hs[k], strip(CellInnerText(r, k + 1)))>>]

\* line 146: f"*{headers[i+1]}*: {cells[i+1].inner_text().strip()}" for i in
\* range(len(headers)-1), for row r (Python index i+1 is position k+1 here)
RecordDetails(hs, r) ==
  [k \in 1..(IF Len(hs) >= 1 THEN Len(hs) - 1 ELSE 0) |->
     <<Tok("pair", hs[k + 1], strip(CellInnerText(r, k + 1)))>>]

\* a join that leaves out the empty strings of the list
RECURSIVE JoinNL_SkipEmpty(_)
JoinNL_SkipEmpty(list) ==
  IF Len(list) = 0 THEN <<>>
  ELSE IF list[1] = <<>> THEN JoinNL_SkipEmpty(Tail(list))
  ELSE LET rest == JoinNL_SkipEmpty(Tail(list))
       IN IF rest = <<>> THEN list[1] ELSE list[1] \o <<NL>> \o rest

\* "\n".join(list): the strings of the list with a newline between them
RECURSIVE JoinNL(_)
JoinNL(list) ==
  IF Len(list) = 0 THEN <<>>
  ELSE IF Len(list) = 1 THEN list[1]
  ELSE list[1] \o <<NL>> \o JoinNL(Tail(list))

Init ==
  /\ tokenSet \in BOOLEAN
  /\ chatIdSet \in BOOLEAN
  /\ pc = "main"
  /\ proxies = <<>>
  /\ i = 0
  /\ browser = 0 /\ context = 0 /\ page = 0
  /\ openBrowsers = {}
  /\ connected = 0
  /\ tried = <<>>
  /\ httpGets = 0
  /\ step = 1
  /\ selected = <<>>
  /\ settleTimeouts = 0
  /\ clicks = 0
  /\ rowsAtWait = -1 /\ rows = -1 /\ headers = -1
  /\ rowIdx = 0 /\ blocks = 0
  /\ shotAttempts = 0 /\ screenshots = 0
  /\ sent = <<>>
  /\ exc = "none" /\ origExc = "none"
  /\ exitStatus = -1
  /\ response = [status |-> "none", lines |-> 0]
  /\ rowCells = <<>>
  /\ message_lines = <<>>
  /\ final_message = <<>>
  /\ message_text = <<>>
  /\ off = 0
  /\ posts = <<>>

\* lines 167-171: without both credentials only a critical line is logged and
\* the module ends; otherwise scrape_bhoomi_data() is called
Main ==
  /\ pc = "main"
  /\ IF tokenSet /\ chatIdSet
       THEN pc' = "get_proxies" /\ exitStatus' = exitStatus
       ELSE pc' = "exit" /\ exitStatus' = 0
  /\ UNCHANGED <<envVars, sendVars, response, fmtVars, connVars, httpGets, navVars, tableVars, errVars,
                 sent, exc, origExc>>

\* lines 27-40 and 65-68: one GET; a request error or a non-200 status gives
\* [], a 200 gives the split body; an empty list is reported and the run returns
get_free_proxies ==
  /\ pc = "get_proxies"
  /\ httpGets' = httpGets + 1
  /\ \/ \E n \in 0..MaxCandidates :
          /\ response' = [status |-> "ok", lines |-> n]
          /\ proxies' = SplitBody(n)
          /\ proxies' # <<>>
          /\ sent' = sent
          /\ pc' = "launch"
          /\ exitStatus' = exitStatus
     \/ \E reply \in {"RequestException", "non200"}, delivered \in BOOLEAN :
          /\ response' = [status |-> reply, lines |-> 0]
          /\ proxies' = <<>>
          /\ sent' = send_telegram_message(sent, "error", "no_proxies", delivered)
          /\ pc' = "exit"
          /\ exitStatus' = 0
  /\ UNCHANGED <<envVars, sendVars, fmtVars, i, browser, context, page,
                 openBrowsers, connected, tried, navVars, tableVars, errVars,
                 exc, origExc>>

\* ---- lines 76-102: the proxy loop ----

\* line 79: p.firefox.launch through candidate i+1
Launch ==
  /\ pc = "launch"
  /\ tried' = Append(tried, Window(proxies)[i + 1])
  /\ \/ /\ browser' = i + 1
        /\ openBrowsers' = openBrowsers \cup {i + 1}
        /\ pc' = "new_context"
        /\ exc' = exc
     \/ /\ exc' = "launch"
        /\ pc' = "conn_except"
        /\ UNCHANGED <<browser, openBrowsers>>
  /\ UNCHANGED <<envVars, sendVars, response, fmtVars, proxies, i, context, page, connected, httpGets,
                 navVars, tableVars, errVars, sent, origExc, exitStatus>>

\* line 83: browser.new_context
NewContext ==
  /\ pc = "new_context"
  /\ \/ /\ context' = i + 1
        /\ pc' = "new_page"
        /\ exc' = exc
     \/ /\ exc' = "new_context"
        /\ pc' = "conn_except"
        /\ context' = context
  /\ UNCHANGED <<envVars, sendVars, response, fmtVars, proxies, i, browser, page, openBrowsers, connected,
                 tried, httpGets, navVars, tableVars, errVars, sent, origExc,
                 exitStatus>>

\* line 87: context.new_page
NewPage ==
  /\ pc = "new_page"
  /\ \/ /\ page' = i + 1
        /\ pc' = "goto"
        /\ exc' = exc
     \/ /\ exc' = "new_page"
        /\ pc' = "conn_except"
        /\ page' = page
  /\ UNCHANGED <<envVars, sendVars, response, fmtVars, proxies, i, browser, context, openBrowsers,
                 connected, tried, httpGets, navVars, tableVars, errVars, sent,
                 origExc, exitStatus>>

\* page.goto whose success does not leave the loop (the break is missing)
Goto_NoBreak ==
  /\ pc = "goto"
  /\ \/ /\ connected' = i + 1
        /\ i' = i + 1
        /\ pc' = IF i + 1 < Len(Window(proxies)) THEN "launch" ELSE "select"
        /\ exc' = exc
     \/ /\ exc' = "goto"
        /\ pc' = "conn_except"
        /\ UNCHANGED <<connected, i>>
  /\ UNCHANGED <<envVars, sendVars, response, fmtVars, proxies, browser, context, page, openBrowsers,
                 tried, httpGets, navVars, tableVars, errVars, sent, origExc,
                 exitStatus>>

\* lines 90-94: page.goto; on success the loop is left by break
Goto ==
  /\ pc = "goto"
  /\ \/ /\ connected' = i + 1
        /\ pc' = "select"
        /\ exc' = exc
     \/ /\ exc' = "goto"
        /\ pc' = "conn_except"
        /\ connected' = connected
  /\ UNCHANGED <<envVars, sendVars, response, fmtVars, proxies, i, browser, context, page, openBrowsers,
                 tried, httpGets, navVars, tableVars, errVars, sent, origExc,
                 exitStatus>>

\* the except clause of the loop with the re-raise test off by one
\* ((i + 1) == 11), so that the tenth failure is swallowed like the others
ConnExcept_NoRaise ==
  /\ pc = "conn_except"
  /\ openBrowsers' = IF browser # 0 THEN CloseBrowser(browser, openBrowsers)
                                     ELSE openBrowsers
  /\ IF i + 1 = ProxyCap + 1
       THEN /\ pc' = "exit"
            /\ exitStatus' = 1
            /\ UNCHANGED <<i, exc>>
       ELSE /\ i' = i + 1
            /\ exc' = "none"
            /\ pc' = IF i + 1 < Len(Window(proxies)) THEN "launch" ELSE "select"
            /\ exitStatus' = exitStatus
  /\ UNCHANGED <<envVars, sendVars, response, fmtVars, proxies, browser, context, page, connected, tried,
                 httpGets, navVars, tableVars, errVars, sent, origExc>>

\* the except clause of the loop without lines 98-99: the instance of the
\* failed attempt is left open
ConnExcept_NoClose ==
  /\ pc = "conn_except"
  /\ openBrowsers' = openBrowsers
  /\ IF i + 1 = ProxyCap
       THEN /\ pc' = "exit"
            /\ exitStatus' = 1
            /\ UNCHANGED <<i, exc>>
       ELSE /\ i' = i + 1
            /\ exc' = "none"
            /\ pc' = IF i + 1 < Len(Window(proxies)) THEN "launch" ELSE "select"
            /\ exitStatus' = exitStatus
  /\ UNCHANGED <<envVars, sendVars, response, fmtVars, proxies, browser,
                 context, page, connected, tried, httpGets, navVars,
                 tableVars, errVars, sent, origExc>>

\* lines 96-102: close the local `browser` if set, re-raise on the tenth
\* attempt, otherwise go on with the next candidate; when the window is used
\* up the for statement ends and control reaches line 105
ConnExcept ==
  /\ pc = "conn_except"
  /\ openBrowsers' = IF browser # 0 THEN CloseBrowser(browser, openBrowsers)
                                     ELSE openBrowsers
  /\ IF i + 1 = ProxyCap
       THEN /\ pc' = "exit"
            /\ exitStatus' = 1
            /\ UNCHANGED <<i, exc>>
       ELSE /\ i' = i + 1
            /\ exc' = "none"
            /\ pc' = IF i + 1 < Len(Window(proxies)) THEN "launch" ELSE "select"
            /\ exitStatus' = exitStatus
  /\ UNCHANGED <<envVars, sendVars, response, fmtVars, proxies, browser, context, page, connected, tried,
                 httpGets, navVars, tableVars, errVars, sent, origExc>>

\* ---- lines 105-124: the form ----

\* lines 108, 112, 116, 120: select_option on the dropdown of the current step
SelectOption ==
  /\ pc = "select"
  /\ selected' = Append(selected, Dropdowns[step])
  /\ \E o \in PageOutcomes("select") :
       IF o = "ok" THEN pc' = "settle" /\ exc' = exc
                   ELSE pc' = "except" /\ exc' = o
  /\ UNCHANGED <<envVars, sendVars, response, fmtVars, connVars, httpGets, step, settleTimeouts, clicks,
                 tableVars, errVars, sent, origExc, exitStatus>>

\* lines 109, 113, 117, 121: wait_for_load_state('networkidle'); its
\* TimeoutError is raised inside the try block like any other exception
WaitForLoadState ==
  /\ pc = "settle"
  /\ \E o \in PageOutcomes("settle") :
       IF o = "ok"
         THEN /\ exc' = exc
              /\ settleTimeouts' = settleTimeouts
              /\ IF step < Len(Dropdowns)
                   THEN step' = step + 1 /\ pc' = "select"
                   ELSE step' = step /\ pc' = "click"
         ELSE /\ exc' = o
              /\ settleTimeouts' = settleTimeouts + 1
              /\ step' = step
              /\ pc' = "except"
  /\ UNCHANGED <<envVars, sendVars, response, fmtVars, connVars, httpGets, selected, clicks, tableVars,
                 errVars, sent, origExc, exitStatus>>

\* line 124: click of the "Fetch Details" button
ClickFetch ==
  /\ pc = "click"
  /\ clicks' = clicks + 1
  /\ \E o \in PageOutcomes("click") :
       IF o = "ok" THEN pc' = "wait_rows" /\ exc' = exc
                   ELSE pc' = "except" /\ exc' = o
  /\ UNCHANGED <<envVars, sendVars, response, fmtVars, connVars, httpGets, step, selected, settleTimeouts,
                 tableVars, errVars, sent, origExc, exitStatus>>

\* ---- lines 126-152: the results table ----

\* line 129: wait_for_selector on tbody/tr returns once a row element is
\* there and raises TimeoutError when none shows up within the timeout
WaitForSelector ==
  /\ pc = "wait_rows"
  /\ \E n \in 0..MaxRows :
       /\ rowsAtWait' = n
       /\ IF n >= 1 THEN pc' = "query_rows" /\ exc' = exc
                    ELSE pc' = "except" /\ exc' = "wait_rows"
  /\ UNCHANGED <<envVars, sendVars, response, fmtVars, connVars, httpGets, navVars, rows, headers, rowIdx,
                 blocks, errVars, sent, origExc, exitStatus>>

\* lines 131-135: the row elements present now; none means the confirmation
\* is sent and the function returns through the finally clause
QueryRows ==
  /\ pc = "query_rows"
  /\ \E m \in 0..MaxRows, delivered \in BOOLEAN :
       /\ rows' = m
       /\ IF m = 0
            THEN /\ sent' = send_telegram_message(sent, "empty", "village", delivered)
                 /\ pc' = "finally"
            ELSE /\ delivered
                 /\ sent' = sent
                 /\ pc' = "headers"
  /\ UNCHANGED <<envVars, sendVars, response, fmtVars, connVars, httpGets, navVars, rowsAtWait, headers,
                 rowIdx, blocks, errVars, exc, origExc, exitStatus>>

\* lines 138-142: the header texts
QueryHeaders ==
  /\ pc = "headers"
  /\ \/ \E h \in 0..MaxHeaders :
          /\ headers' = h
          /\ message_lines' = <<TitleLine, DividerLine>>
          /\ pc' = "row"
          /\ exc' = exc
     \/ /\ headers' = headers
        /\ message_lines' = message_lines
        /\ pc' = "except"
        /\ exc' = "extract"
  /\ UNCHANGED <<envVars, sendVars, response, rowCells, final_message,
                 connVars, httpGets, navVars, rowsAtWait, rows, rowIdx,
                 blocks, errVars, sent, origExc, exitStatus>>

\* pairing headers and cells with zip instead of indexing: a short row is
\* silently truncated and never raises
RowIndexError_Truncate(h, c) == FALSE

\* line 146: cells[i+1] for i in range(len(headers)-1) is out of range when
\* the row has fewer cells than there are headers (and two headers or more)
RowIndexError(h, c) == h >= 2 /\ c < h

\* lines 144-148: one row of the loop, with c the number of its td cells
FormatRow ==
  /\ pc = "row"
  /\ \E c \in 0..MaxHeaders :
       /\ rowCells' = Append(rowCells, c)
       /\ IF RowIndexError(headers, c)
            THEN /\ pc' = "except"
                 /\ exc' = "IndexError"
                 /\ UNCHANGED <<rowIdx, blocks, message_lines>>
            ELSE /\ rowIdx' = rowIdx + 1
                 /\ blocks' = blocks + 1
                 /\ message_lines' = message_lines \o
                      <<JoinNL(RecordDetails(HeadersList(headers), rowIdx + 1)),
                        DividerLine>>
                 /\ exc' = exc
                 /\ pc' = IF rowIdx + 1 < rows THEN "row" ELSE "send_report"
  /\ UNCHANGED <<envVars, sendVars, response, final_message, connVars,
                 httpGets, navVars, rowsAtWait, rows, headers, errVars, sent,
                 origExc, exitStatus>>

\* lines 150-152: the report is sent
SendReport ==
  /\ pc = "send_report"
  /\ final_message' = JoinNL(message_lines)
  /\ \E delivered \in BOOLEAN :
       sent' = send_telegram_message(sent, "report", "village", delivered)
  /\ pc' = "finally"
  /\ UNCHANGED <<envVars, sendVars, response, rowCells, message_lines,
                 connVars, httpGets, navVars, tableVars, errVars, exc,
                 origExc, exitStatus>>

\* ---- lines 154-165: the error path and the cleanup ----

\* what page.screenshot can do on the local `page` (only called when truthy)
ScreenshotOutcomes ==
  IF page \notin openBrowsers THEN {"TargetClosedError"} ELSE {"ok", "screenshot"}

\* an except clause that starts the form over after a failed selection
\* instead of reporting it
Except_Retry ==
  /\ pc = "except"
  /\ origExc' = exc
  /\ IF exc = "select"
       THEN /\ pc' = "select"
            /\ exc' = "none"
            /\ UNCHANGED <<shotAttempts, screenshots>>
       ELSE IF page # 0
         THEN /\ shotAttempts' = shotAttempts + 1
              /\ \E o \in IF page \notin openBrowsers
                             THEN {"TargetClosedError"} ELSE {"ok", "screenshot"} :
                   IF o = "ok"
                     THEN /\ screenshots' = screenshots + 1
                          /\ exc' = exc
                          /\ pc' = "err_send"
                     ELSE /\ screenshots' = screenshots
                          /\ exc' = o
                          /\ pc' = "finally"
         ELSE /\ pc' = "err_send"
              /\ UNCHANGED <<shotAttempts, screenshots, exc>>
  /\ UNCHANGED <<envVars, sendVars, response, fmtVars, connVars, httpGets,
                 navVars, tableVars, sent, exitStatus>>

\* lines 154-159: the except clause up to the screenshot; an exception of
\* page.screenshot leaves the clause at once and replaces the one in flight
Except ==
  /\ pc = "except"
  /\ origExc' = exc
  /\ IF page # 0
       THEN /\ shotAttempts' = shotAttempts + 1
            /\ \E o \in ScreenshotOutcomes :
                 IF o = "ok"
                   THEN /\ screenshots' = screenshots + 1
                        /\ exc' = exc
                        /\ pc' = "err_send"
                   ELSE /\ screenshots' = screenshots
                        /\ exc' = o
                        /\ pc' = "finally"
       ELSE /\ pc' = "err_send"
            /\ UNCHANGED <<shotAttempts, screenshots, exc>>
  /\ UNCHANGED <<envVars, sendVars, response, fmtVars, connVars, httpGets, navVars, tableVars, sent,
                 exitStatus>>

\* lines 160-161: the error notification, then raise
ErrSend ==
  /\ pc = "err_send"
  /\ \E delivered \in BOOLEAN :
       sent' = send_telegram_message(sent, "error", origExc, delivered)
  /\ pc' = "finally"
  /\ UNCHANGED <<envVars, sendVars, response, fmtVars, connVars, httpGets, navVars, tableVars, errVars, exc,
                 origExc, exitStatus>>

\* the cleanup written as a close call at the end of the try body instead of
\* a finally clause: it is skipped when an exception is in flight
Finally_CloseOnSuccessOnly ==
  /\ pc = "finally"
  /\ openBrowsers' = IF browser # 0 /\ exc = "none"
                       THEN CloseBrowser(browser, openBrowsers)
                       ELSE openBrowsers
  /\ pc' = "exit"
  /\ exitStatus' = IF exc = "none" THEN 0 ELSE 1
  /\ UNCHANGED <<envVars, sendVars, response, fmtVars, proxies, i, browser, context, page, connected, tried,
                 httpGets, navVars, tableVars, errVars, sent, exc, origExc>>

\* lines 162-165: the finally clause; an exception in flight then leaves the
\* process with a failure status
Finally ==
  /\ pc = "finally"
  /\ openBrowsers' = IF browser # 0 THEN CloseBrowser(browser, openBrowsers)
                                     ELSE openBrowsers
  /\ pc' = "exit"
  /\ exitStatus' = IF exc = "none" THEN 0 ELSE 1
  /\ UNCHANGED <<envVars, sendVars, response, fmtVars, proxies, i, browser, context, page, connected, tried,
                 httpGets, navVars, tableVars, errVars, sent, exc, origExc>>

\* ---- lines 42-61: send_telegram_message, call by call ----

\* a text of length n whose characters are all different
Text(n) == [j \in 1..n |-> j]

\* the lengths tried: around every multiple of the chunk size
TextLengths ==
  {n \in {k * ChunkSize + d : k \in 0..MaxChunks, d \in {-1, 0, 1}} : n >= 0}

\* the slice taken one character short: message_text[i:i + 4095]
Chunk_Short(text, o) == SubSeq(text, o + 1, Min(o + ChunkSize - 1, Len(text)))

\* line 50: message_text[i:i + 4096]
Chunk(text, o) == SubSeq(text, o + 1, Min(o + ChunkSize, Len(text)))

\* a call of send_telegram_message(message_text) from the try body (no
\* exception in flight) or from the except clause (one in flight)
SendInit ==
  /\ tokenSet \in BOOLEAN
  /\ chatIdSet \in BOOLEAN
  /\ pc = "send"
  /\ proxies = <<>>
  /\ i = 0
  /\ browser = 0 /\ context = 0 /\ page = 0
  /\ openBrowsers = {}
  /\ connected = 0
  /\ tried = <<>>
  /\ httpGets = 0
  /\ step = 1
  /\ selected = <<>>
  /\ settleTimeouts = 0
  /\ clicks = 0
  /\ rowsAtWait = -1 /\ rows = -1 /\ headers = -1
  /\ rowIdx = 0 /\ blocks = 0
  /\ shotAttempts = 0 /\ screenshots = 0
  /\ sent = <<>>
  /\ exc \in {"none", "wait_rows"}
  /\ origExc = exc
  /\ exitStatus = -1
  /\ response = [status |-> "none", lines |-> 0]
  /\ rowCells = <<>>
  /\ message_lines = <<>>
  /\ final_message = <<>>
  /\ message_text \in {Text(n) : n \in TextLengths}
  /\ off = 0
  /\ posts = <<>>

\* lines 44-46: without both credentials the function returns at once
SendCheck ==
  /\ pc = "send"
  /\ pc' = IF ~tokenSet \/ ~chatIdSet THEN "finally" ELSE "post"
  /\ UNCHANGED <<envVars, connVars, httpGets, navVars, tableVars, errVars,
                 sent, exc, origExc, exitStatus, response, fmtVars, sendVars>>

\* the loop without the try/except of lines 56-61: a RequestException of
\* requests.post leaves the function and reaches the caller
PostChunk_Raises ==
  /\ pc = "post"
  /\ off < Len(message_text)
  /\ \E outcome \in {"200", "non200", "RequestException"} :
       /\ posts' = Append(posts, [text |-> Chunk(message_text, off),
                                  outcome |-> outcome])
       /\ IF outcome = "RequestException"
            THEN exc' = "RequestException" /\ pc' = "finally"
            ELSE exc' = exc /\ pc' = pc
  /\ off' = off + ChunkSize
  /\ UNCHANGED <<envVars, connVars, httpGets, navVars, tableVars, errVars,
                 sent, origExc, exitStatus, response, fmtVars, message_text>>

\* lines 49-61: one iteration of the loop; a status other than 200 and a
\* RequestException are logged and the loop goes on
PostChunk ==
  /\ pc = "post"
  /\ off < Len(message_text)
  /\ \E outcome \in {"200", "non200", "RequestException"} :
       posts' = Append(posts, [text |-> Chunk(message_text, off),
                               outcome |-> outcome])
  /\ off' = off + ChunkSize
  /\ pc' = pc
  /\ UNCHANGED <<envVars, connVars, httpGets, navVars, tableVars, errVars,
                 sent, exc, origExc, exitStatus, response, fmtVars,
                 message_text>>

\* line 49: the range is used up and the function returns to its caller
SendReturn ==
  /\ pc = "post"
  /\ off >= Len(message_text)
  /\ pc' = "finally"
  /\ UNCHANGED <<envVars, connVars, httpGets, navVars, tableVars, errVars,
                 sent, exc, origExc, exitStatus, response, fmtVars, sendVars>>

SendNext ==
  \/ SendCheck
  \/ PostChunk
  \/ SendReturn
  \/ Finally

SendSpec == SendInit /\ [][SendNext]_vars

Next ==
  \/ Main
  \/ get_free_proxies
  \/ Launch
  \/ NewContext
  \/ NewPage
  \/ Goto
  \/ ConnExcept
  \/ SelectOption
  \/ WaitForLoadState
  \/ ClickFetch
  \/ WaitForSelector
  \/ QueryRows
  \/ QueryHeaders
  \/ FormatRow
  \/ SendReport
  \/ Except
  \/ ErrSend
  \/ Finally

Spec == Init /\ [][Next]_vars

TypeOK ==
  /\ pc \in {"main", "get_proxies", "launch", "new_context", "new_page", "goto",
             "conn_except", "select", "settle", "click", "wait_rows",
             "query_rows", "headers", "row", "send_report", "except",
             "err_send", "finally", "exit", "send", "post"}
  /\ browser \in 0..ProxyCap /\ context \in 0..ProxyCap /\ page \in 0..ProxyCap
  /\ openBrowsers \subseteq 1..ProxyCap
  /\ exitStatus \in {-1, 0, 1}

\* ---- properties ----

Kinds(log) == {log[j].kind : j \in 1..Len(log)}
CountKind(log, k) == Cardinality({j \in 1..Len(log) : log[j].kind = k})
Connecting == pc \in {"launch", "new_context", "new_page", "goto", "conn_except"}
CredentialsSet == tokenSet /\ chatIdSet

\* C1: once a candidate's page load has succeeded, the browser opened for it
\* is closed when the run ends, whichever way the run ends (report sent, empty
\* result, or a failure raised from navigation, extraction or the error
\* capture); at the terminal state no browser instance is open at all.
C1_BrowserClosedAtExit ==
  pc = "exit" => (openBrowsers = {} /\ (connected # 0 => connected \notin openBrowsers))

\* a run that connected, failed, failed again in the screenshot, and ended
C1_Witness ==
  /\ pc = "exit"
  /\ connected # 0
  /\ exc = "screenshot"
  /\ openBrowsers = {}

\* every candidate of the capped window was tried and none connected
AllWindowFailed ==
  /\ proxies # <<>>
  /\ connected = 0
  /\ Len(tried) = Len(Window(proxies))
  /\ ~Connecting

\* C2: when every candidate of the capped window fails, for a list of any
\* size N >= 1, the connection failure is propagated to the caller: the run
\* ends at once with failure, and never goes on to the form as if connected.
C2_ExhaustionPropagates ==
  AllWindowFailed =>
    /\ pc = "exit"
    /\ exitStatus = 1
    /\ exc \in {"launch", "new_context", "new_page", "goto"}
    /\ selected = <<>>

\* C3: when the k-th candidate is the first (hence only) one to succeed,
\* exactly k attempts were made, on candidates 1..k of the list in order, and
\* the page (and browser) every later step uses is the one opened through
\* the k-th candidate, still open while those steps run.
C3_KthCandidateSession ==
  connected # 0 =>
    /\ connected <= Min(Len(proxies), ProxyCap)
    /\ tried = SubSeq(proxies, 1, connected)
    /\ page = connected /\ context = connected /\ browser = connected
    /\ (pc \notin {"exit"} => page \in openBrowsers)

\* the third candidate connected after two failures and a report went out
C3_Witness ==
  /\ connected = 3
  /\ Len(tried) = 3
  /\ pc = "exit"
  /\ "report" \in Kinds(sent)

\* C4: when the results table holds zero row elements after the fetch click,
\* the run ends normally with exactly one "no new transaction data"
\* confirmation, no error notification and no screenshot.
C4_ZeroRowsIsEmptyOutcome ==
  rowsAtWait = 0 =>
    /\ exc = "none"
    /\ shotAttempts = 0
    /\ "error" \notin Kinds(sent)
    /\ pc = "exit" => (Len(sent) = 1 /\ sent[1].kind = "empty" /\ exitStatus = 0)

\* the notification kind that matches the way the run ended
OutcomeKind ==
  IF exitStatus = 1 THEN "error" ELSE IF rows = 0 THEN "empty" ELSE "report"

\* C5: a run with credentials and at least one candidate sends exactly one
\* logical notification and its kind matches the outcome: a report when rows
\* were extracted, a confirmation when the result is empty, an error
\* notification when the run ends in a fatal failure (exit status 1).
C5_OneNotificationPerRun ==
  (pc = "exit" /\ CredentialsSet /\ proxies # <<>>) =>
    /\ Len(sent) = 1
    /\ sent[1].kind = OutcomeKind

\* C6: when the screenshot capture fails after a navigation or extraction
\* failure, the error notification is still sent and the failure leaving the
\* run is the original one, not the capture failure.
C6_CaptureBestEffort ==
  (pc = "exit" /\ connected # 0 /\ shotAttempts > screenshots) =>
    /\ CountKind(sent, "error") = 1
    /\ exc = origExc

\* C7: when the rows never appear within the wait timeout, the run makes
\* exactly one screenshot call, sends exactly one error notification (after
\* the screenshot), sends no report and no confirmation, and ends in failure.
C7_ResultTimeoutPath ==
  /\ (pc = "err_send" /\ origExc = "wait_rows") => shotAttempts = 1
  /\ (pc = "exit" /\ origExc = "wait_rows") =>
       /\ shotAttempts = 1
       /\ Len(sent) = 1
       /\ sent[1].kind = "error"
       /\ exitStatus = 1

\* ten attempts were made and all of them failed
AllTenFailed ==
  /\ Len(tried) = ProxyCap
  /\ connected = 0
  /\ ~Connecting

\* C8: when all 10 connection attempts fail, the run is over with failure
\* status: no report or confirmation was sent, no screenshot was attempted
\* and no dropdown selection was attempted.
C8_TenFailuresEndRun ==
  AllTenFailed =>
    /\ pc = "exit"
    /\ exitStatus = 1
    /\ Kinds(sent) \cap {"report", "empty"} = {}
    /\ shotAttempts = 0
    /\ selected = <<>>

\* ten candidates were tried, the last failing in page.goto, and the run ended
C8_Witness ==
  /\ AllTenFailed
  /\ pc = "exit"
  /\ exc = "goto"
  /\ tried = SubSeq(proxies, 1, ProxyCap)

\* C9: a timeout of the settle wait after a selection is not fatal: it never
\* becomes the exception that takes the run to the error path.
C9_SettleTimeoutNotFatal ==
  settleTimeouts > 0 => exc # "settle"

\* C10: with the token or the chat id missing, the run ends before any
\* network activity (no proxy fetch, no browser launch, no notification) and
\* the process exit status is non-zero.
C10_MissingCredentialAborts ==
  (pc = "exit" /\ ~CredentialsSet) =>
    /\ httpGets = 0
    /\ tried = <<>>
    /\ sent = <<>>
    /\ exitStatus # 0

\* some row read so far has fewer cells than headers minus one
MalformedRow ==
  \E r \in 1..Len(rowCells) : rowCells[r] < headers - 1

\* C11: when a row has fewer cells than headers minus one, extraction fails
\* instead of truncating: an exception is in flight on the error path, the
\* run ends with failure, and no report is built or sent, not even for the
\* well-formed rows before the malformed one.
C11_ShortRowFailsRun ==
  MalformedRow =>
    /\ exc # "none"
    /\ pc \in {"except", "err_send", "finally", "exit"}
    /\ final_message = <<>>
    /\ "report" \notin Kinds(sent)
    /\ pc = "exit" => exitStatus = 1

\* a well-formed first row, a second row two cells short, and the run ended
C11_Witness ==
  /\ pc = "exit"
  /\ headers = 3
  /\ rowCells = <<3, 1>>
  /\ blocks = 1
  /\ origExc = "IndexError"

\* ceil(n / 4096)
NumChunks(n) == (n + ChunkSize - 1) \div ChunkSize

\* the chunk texts of the POSTs made, concatenated in send order
RECURSIVE ConcatPosts(_)
ConcatPosts(ps) ==
  IF ps = <<>> THEN <<>> ELSE ps[1].text \o ConcatPosts(Tail(ps))

SendFinished == pc \in {"finally", "exit"}

\* C12: send_telegram_message never raises on a delivery failure: a non-200
\* status or a network error of any chunk leaves the caller's exception in
\* flight (or its absence) as it was, every chunk is still posted, in order,
\* and the run ends the way it would have ended with a delivered message;
\* with a credential missing no POST is made at all.
C12_SendNeverRaises ==
  /\ exc = origExc
  /\ ~CredentialsSet => posts = <<>>
  /\ (SendFinished /\ CredentialsSet) =>
       /\ Len(posts) = NumChunks(Len(message_text))
       /\ \A k \in 1..Len(posts) : posts[k].text[1] = (k - 1) * ChunkSize + 1
  /\ pc = "exit" => exitStatus = (IF origExc = "none" THEN 0 ELSE 1)

\* three chunks, the first hit a network error, the second a non-200
\* status, and the caller still ended normally
C12_Witness ==
  /\ pc = "exit"
  /\ Len(posts) = 3
  /\ posts[1].outcome = "RequestException"
  /\ posts[2].outcome = "non200"
  /\ exitStatus = 0

\* C13: for a text of length L (L = 0 and exact multiples of 4096
\* included), with credentials, exactly ceil(L/4096) POSTs are made one after
\* the other in increasing offset order, each with at most 4096 characters,
\* and their texts concatenated in send order give back the original text.
C13_ChunkRoundTrip ==
  CredentialsSet =>
    /\ \A k \in 1..Len(posts) : Len(posts[k].text) \in 1..ChunkSize
    /\ ConcatPosts(posts) = SubSeq(message_text, 1, Min(off, Len(message_text)))
    /\ SendFinished =>
         /\ Len(posts) = NumChunks(Len(message_text))
         /\ ConcatPosts(posts) = message_text

\* a text of exactly two chunks was sent in two POSTs
C13_Witness ==
  /\ pc = "exit"
  /\ CredentialsSet
  /\ Len(message_text) = 2 * ChunkSize
  /\ Len(posts) = 2
  /\ Len(posts[2].text) = ChunkSize

\* the report was built from a table of `rows` rows with `headers` cells each
ReportOfFullTable ==
  /\ final_message # <<>>
  /\ headers >= 1
  /\ Len(rowCells) = rows
  /\ \A r \in 1..rows : rowCells[r] = headers

\* the line '*hj*: cj' of row r, with the trimmed header and cell texts
PairLine(r, j) == Tok("pair", Txt("h", 0, j, FALSE), Txt("c", r, j, FALSE))

\* the lines of row r for j = 2..H as one string, newlines between them
ExpectedBlock(H, r) ==
  [p \in 1..(IF H >= 2 THEN 2 * (H - 1) - 1 ELSE 0) |->
     IF p % 2 = 1 THEN PairLine(r, ((p + 1) \div 2) + 1) ELSE NL]

IsPair(tok) == tok.kind = "pair"

\* C14: for headers h1..hH and rows of H cells, the block of row r is
\* exactly the lines '*hj*: cj' for j = 2..H in that order (the leading
\* column dropped, each header paired with the cell at its own position);
\* the blocks come in table row order under a title line naming the village.
C14_RowBlocks ==
  ReportOfFullTable =>
    /\ final_message[1] = Tok("title", Txt("VILLAGE_NAME", 0, 0, FALSE), NoTxt)
    /\ Len(message_lines) = 2 * rows + 2
    /\ \A r \in 1..rows : message_lines[2 * r + 1] = ExpectedBlock(headers, r)
    /\ SelectSeq(final_message, IsPair) =
         [n \in 1..(rows * (headers - 1)) |->
            PairLine(((n - 1) \div (headers - 1)) + 1,
                     ((n - 1) % (headers - 1)) + 2)]

\* two rows of three cells under three headers were reported
C14_Witness ==
  /\ pc = "exit"
  /\ headers = 3
  /\ rows = 2
  /\ rowCells = <<3, 3>>
  /\ final_message # <<>>
  /\ "report" \in Kinds(sent)

CountTok(str, kind) == Cardinality({p \in 1..Len(str) : str[p].kind = kind})
\* number of lines of a string: len(str.split("\n"))
LineCount(str) == CountTok(str, "nl") + 1

\* C15 as stated: R row-blocks of H-1 lines each and R*(H-1) + R + 2 lines
\* in all, for every H >= 1 and R >= 1, H = 1 included.
C15_LineCountAsStated ==
  ReportOfFullTable =>
    /\ blocks = rows
    /\ CountTok(final_message, "pair") = rows * (headers - 1)
    /\ LineCount(final_message) = rows * (headers - 1) + rows + 2

\* C15 (amended): the message has R row-blocks and R*(H-1) 'label: value'
\* lines between R + 1 dividers; its line count is R*(H-1) + R + 2 when
\* H >= 2, and 2R + 2 when H = 1, where every row-block is one empty line.
C15_LineCount ==
  ReportOfFullTable =>
    /\ blocks = rows
    /\ CountTok(final_message, "pair") = rows * (headers - 1)
    /\ CountTok(final_message, "divider") = rows + 1
    /\ LineCount(final_message) =
         (IF headers >= 2 THEN rows * (headers - 1) + rows + 2
                          ELSE 2 * rows + 2)

\* a table with the index column only (H = 1) and two rows was reported
C15_Witness ==
  /\ pc = "exit"
  /\ headers = 1
  /\ rows = 2
  /\ rowCells = <<1, 1>>
  /\ LineCount(final_message) = 6

\* C16: the form steps run only after a successful connection: whenever the
\* district selection is about to be attempted, the most recent connection
\* attempt's page load succeeded and the browser of that page is still open.
C16_FormOnlyWhenConnected ==
  (pc = "select" /\ step = 1) =>
    /\ connected # 0
    /\ connected = tried[Len(tried)]
    /\ page = connected
    /\ page \in openBrowsers

\* the proxy endpoint supplied no candidate: unreachable, a status other
\* than 200, or a 200 with an empty body
NoCandidatesSupplied ==
  \/ response.status \in {"RequestException", "non200"}
  \/ response.status = "ok" /\ response.lines = 0

\* C17: whenever the proxy endpoint supplies no candidates, get_free_proxies
\* returns an empty list without raising, and the run launches no browser,
\* sends exactly one 'could not fetch any proxies' error notification, and
\* ends.
C17_NoCandidatesEndsRun ==
  NoCandidatesSupplied =>
    /\ proxies = <<>>
    /\ tried = <<>>
    /\ pc = "exit"
    /\ Len(sent) = 1
    /\ sent[1].kind = "error" /\ sent[1].category = "no_proxies"

\* C18: at every point of a run at most one browser instance is open, and
\* it is the one held in the local `browser`; a failed attempt's instance is
\* closed before the next candidate is launched and before the run ends.
C18_AtMostOneBrowser ==
  /\ Cardinality(openBrowsers) <= 1
  /\ openBrowsers \subseteq {browser}
  /\ pc \in {"launch", "exit"} => openBrowsers = {}

\* two attempts that each opened a browser have failed and the third
\* candidate is about to be launched with nothing left open
C18_Witness ==
  /\ pc = "launch"
  /\ i = 2
  /\ browser = 2
  /\ page = 1
  /\ openBrowsers = {}

\* C19: at most 10 attempts are made, on the first candidates of the list
\* only, each once and in list order, and none after the first successful
\* page load.
C19_BoundedOrderedAttempts ==
  /\ Len(tried) <= ProxyCap
  /\ Len(tried) <= Len(proxies)
  /\ \A k \in 1..Len(tried) : tried[k] = proxies[k]
  /\ connected # 0 => (Len(tried) = connected /\ ~Connecting)

\* eleven candidates, the tenth connected, the eleventh was never tried
C19_Witness ==
  /\ Len(proxies) > ProxyCap
  /\ Len(tried) = ProxyCap
  /\ connected = ProxyCap
  /\ pc = "exit"

\* a failure of the form or of the extraction has been caught
NavFailed == pc = "except" \/ origExc # "none"

\* C20: a Navigator or Extractor failure is never retried: once it is
\* caught, no dropdown selection, settle wait, fetch click, row wait, row
\* query, page navigation or browser launch happens any more; the steps left
\* are the screenshot, the error notification, the close and the re-raise.
C20_NoRetryAfterFailure ==
  [][NavFailed =>
       /\ selected' = selected
       /\ settleTimeouts' = settleTimeouts
       /\ clicks' = clicks
       /\ rowsAtWait' = rowsAtWait /\ rows' = rows /\ rowCells' = rowCells
       /\ tried' = tried /\ connected' = connected
       /\ openBrowsers' \subseteq openBrowsers
       /\ pc' \in {"err_send", "finally", "exit"}]_vars

\* the fetch click failed once; screenshot, one notification, and the end
C20_Witness ==
  /\ pc = "exit"
  /\ origExc = "click"
  /\ clicks = 1
  /\ Len(selected) = 4
  /\ screenshots = 1
  /\ Len(sent) = 1
  /\ exitStatus = 1
====
